---- MODULE Spec2Model ----
(***************************************************************************)
(* netawait: wait until a network-readiness condition holds on a route     *)
(* socket.  The model follows pkg/src/main.rs (event loop and predicate    *)
(* evaluator) and libroute/src/socket.rs (route socket, requests, recv).   *)
(***************************************************************************)
EXTENDS Integers, Sequences, FiniteSets, TLC

(***************************************************************************)
(* Bounds of the model.                                                    *)
(***************************************************************************)
\* the clock stops ticking at MaxTime
MaxTime == 4
\* the largest --timeout value tried, in clock ticks (seconds)
MaxTimeout == 2
\* the most messages one recv call skips before it returns
MaxSkipped == 2
\* the most requests a caller sends on one socket
MaxRequests == 3
\* the most address records in a stream handed to the address-set parser
MaxRecords == 3
\* longest wait-condition string, in words and separators
MaxParts == 4

(***************************************************************************)
(* Platform constants (nix::libc).                                         *)
(***************************************************************************)
RTF_UP == 1
RTF_GATEWAY == 2
RTF_DEAD == 536870912
IFF_UP == 1
IFF_RUNNING == 64
\* "no such process", masked by RouteSocket::send
ESRCH == 3
\* exit status of a Rust process that panicked (unwrap on Err)
PANIC_STATUS == 101
RTF_HOST == 4
RTF_IFSCOPE == 16777216
RTV_HOPCOUNT == 2
\* message types of the route socket
RTM_ADD == 1
RTM_DELETE == 2
RTM_CHANGE == 3
RTM_GET == 4
RTM_LOSING == 5
RTM_OLDADD == 9
RTM_OLDDEL == 10
RTM_NEWADDR == 12
RTM_DELADDR == 13
RTM_IFINFO == 14
RTM_NEWMADDR == 15
RTM_DELMADDR == 16
RTM_IFINFO2 == 18
RTM_NEWMADDR2 == 19
RTM_GET2 == 20
\* size_of::<if_msghdr>() and size_of::<ifa_msghdr>()
IF_HDR_LEN == 112
IFA_HDR_LEN == 20
\* "addresses present" bits of a message header
RTA_DST == 1
RTA_GATEWAY == 2
RTA_NETMASK == 4
RTA_GENMASK == 8
RTA_IFP == 16
RTA_IFA == 32
RTA_AUTHOR == 64
RTA_BRD == 128
\* address families
AF_INET == 2
AF_LINK == 18
AF_INET6 == 30
\* size_of::<rt_msghdr>()
HDR_LEN == 92
\* size_of::<sockaddr_dl>()
ADDR_LEN == 20
\* size_of::<sockaddr_in>()
SOCKADDR_IN_LEN == 16

\* flags & bit != 0, for a single-bit mask
HasBit(flags, bit) == (flags \div bit) % 2 = 1

(***************************************************************************)
(* Addresses.  An IPv4 address is its four octets, an IPv6 address its     *)
(* eight 16-bit segments, as std::net builds them from arrays.             *)
(***************************************************************************)
NoAddr == [fam |-> "None"]
V4(a, b, c, d) == [fam |-> "V4", ip |-> <<a, b, c, d>>, port |-> 0]
V6(s) == [fam |-> "V6", ip |-> s, port |-> 0]
LinkAddr(name, idx) == [fam |-> "Link", index |-> idx, interface_name |-> name]

ZERO_IPV4 == <<0, 0, 0, 0>>
ZERO_IPV6 == <<0, 0, 0, 0, 0, 0, 0, 0>>
LOCAL_IPV6_ADDR == <<0, 0, 0, 0, 0, 0, 0, 1>>
LOCAL_IPV4_RANGE == [addr |-> <<127, 0, 0, 0>>, prefix |-> 8]
LINK_LOCAL_IPV4_RANGE == [addr |-> <<169, 254, 0, 0>>, prefix |-> 16]
LINK_LOCAL_IPV6_RANGE == [addr |-> <<65152, 0, 0, 0, 0, 0, 0, 0>>, prefix |-> 10]

RECURSIVE Pow2(_)
Pow2(n) == IF n = 0 THEN 1 ELSE 2 * Pow2(n - 1)

\* the top k bits of a w-bit group, the rest cleared
MaskGroup(g, k, w) == (g \div Pow2(w - k)) * Pow2(w - k)

\* how many of the prefix bits fall into the i-th group of w bits
PrefixBits(prefix, i, w) ==
    LET left == prefix - w * (i - 1)
    IN  IF left <= 0 THEN 0 ELSE IF left >= w THEN w ELSE left

\* IpNetwork::contains: (ip & mask) == network, group by group
NetContains(net, ip, w) ==
    \A i \in 1..Len(ip) :
        MaskGroup(ip[i], PrefixBits(net.prefix, i, w), w)
            = MaskGroup(net.addr[i], PrefixBits(net.prefix, i, w), w)

is_not_local_addr_v4only(addr) ==
    CASE addr.fam = "Link" -> FALSE
      [] addr.fam = "V4" -> ~(NetContains(LOCAL_IPV4_RANGE, addr.ip, 8)
                              \/ NetContains(LINK_LOCAL_IPV4_RANGE, addr.ip, 8))
      [] addr.fam = "V6" -> TRUE

is_not_local_addr(addr) ==
    CASE addr.fam = "Link" -> FALSE
      [] addr.fam = "V4" -> ~(NetContains(LOCAL_IPV4_RANGE, addr.ip, 8)
                              \/ NetContains(LINK_LOCAL_IPV4_RANGE, addr.ip, 8))
      [] addr.fam = "V6" -> ~(LOCAL_IPV6_ADDR = addr.ip
                              \/ NetContains(LINK_LOCAL_IPV6_RANGE, addr.ip, 16))

(***************************************************************************)
(* Events, as the message decoder hands them to the event loop.  Only the  *)
(* fields the predicate evaluator reads are kept: the header's operation,  *)
(* interface index and flags, and four slots of the address set.           *)
(***************************************************************************)
RouteOps == {"Add", "Delete", "Change", "Get", "Get2"}
LinkOps == {"Info", "Info2"}
AddressOps == {"Add", "Delete"}

TargetName == "en0"
OtherName == "en1"
Indexes == {7, 8}

RouteFlagValues == {0, RTF_UP, RTF_UP + RTF_GATEWAY}
LinkFlagValues == {IFF_UP, IFF_RUNNING, IFF_UP + IFF_RUNNING}
AddressFlagValues == {0, RTF_UP, RTF_UP + RTF_DEAD}

DestinationValues ==
    {NoAddr, V4(0, 0, 0, 0), V4(10, 0, 0, 0), V4(169, 254, 10, 11), V6(ZERO_IPV6)}
GatewayValues == {NoAddr, V4(192, 168, 1, 1)}
InterfaceAddrValues ==
    {NoAddr, V4(192, 0, 2, 10), V4(169, 254, 10, 11),
     V6(<<65152, 0, 0, 0, 0, 0, 0, 1>>)}
InterfaceLinkValues ==
    {NoAddr, LinkAddr(TargetName, 7), LinkAddr(TargetName, 8), LinkAddr(OtherName, 7)}

AddressSets ==
    [destination : DestinationValues, gateway : GatewayValues,
     interface_addr : InterfaceAddrValues, interface_link : InterfaceLinkValues]

Events ==
    [kind : {"Route"}, operation : RouteOps, index : Indexes,
     flags : RouteFlagValues, addrs : AddressSets]
    \cup [kind : {"Link"}, operation : LinkOps, index : Indexes,
          flags : LinkFlagValues, addrs : AddressSets]
    \cup [kind : {"Address"}, operation : AddressOps, index : Indexes,
          flags : AddressFlagValues, addrs : AddressSets]

NoPacket == [kind |-> "None"]

(***************************************************************************)
(* Wait conditions (main.rs).                                              *)
(***************************************************************************)
NoIndex == [some |-> FALSE, idx |-> 0]
SomeIndex(i) == [some |-> TRUE, idx |-> i]

IndexSpec(i) == [tag |-> "Index", idx |-> i, name |-> ""]
NameSpec(n) == [tag |-> "Name", idx |-> 0, name |-> n]
NoSpec == [tag |-> "None", idx |-> 0, name |-> ""]

AnyDefaultRoute == [kind |-> "AnyDefaultRoute", spec |-> NoSpec]
Interface(sp) == [kind |-> "Interface", spec |-> sp]
Unset == [kind |-> "Unset", spec |-> NoSpec]

is_ready_default_route_any_destination(h) ==
    IF h.kind # "Route" THEN FALSE
    ELSE IF h.operation \notin {"Add", "Get", "Change"} THEN FALSE
    ELSE IF ~(HasBit(h.flags, RTF_UP) /\ h.addrs.gateway # NoAddr) THEN FALSE
    ELSE h.addrs.destination.fam \in {"V4", "V6"}

is_ready_default_route(h) ==
    IF h.kind # "Route" THEN FALSE
    ELSE IF h.operation \notin {"Add", "Get", "Change"} THEN FALSE
    ELSE IF ~(HasBit(h.flags, RTF_UP) /\ h.addrs.gateway # NoAddr) THEN FALSE
    ELSE CASE h.addrs.destination.fam = "V4" -> h.addrs.destination.ip = ZERO_IPV4
           [] h.addrs.destination.fam = "V6" -> h.addrs.destination.ip = ZERO_IPV6
           [] OTHER -> FALSE

updated_index_from_header(h, given_spec) ==
    IF given_spec.tag = "Index" THEN NoIndex
    ELSE IF h.addrs.interface_link.fam = "Link"
            /\ h.addrs.interface_link.interface_name = given_spec.name
         THEN SomeIndex(h.index)
         ELSE NoIndex

\* the index a name-scoped evaluator adopts from the event's link record
updated_index_for_any_spec(h, given_spec) ==
    IF h.addrs.interface_link.fam = "Link"
       /\ (given_spec.tag = "Index"
            \/ h.addrs.interface_link.interface_name = given_spec.name)
    THEN SomeIndex(h.addrs.interface_link.index)
    ELSE NoIndex

updated_index(h, given_spec) ==
    IF given_spec.tag = "Index" THEN NoIndex
    ELSE IF h.addrs.interface_link.fam = "Link"
            /\ h.addrs.interface_link.interface_name = given_spec.name
         THEN SomeIndex(h.addrs.interface_link.index)
         ELSE NoIndex

\* liveness read from the header whatever its operation
header_liveness_any_operation(h) ==
    CASE h.kind = "Link" ->
            [some |-> TRUE, index |-> h.index,
             is_alive |-> HasBit(h.flags, IFF_UP) /\ HasBit(h.flags, IFF_RUNNING)]
      [] h.kind = "Address" ->
            [some |-> TRUE, index |-> h.index,
             is_alive |-> HasBit(h.flags, RTF_UP) /\ ~HasBit(h.flags, RTF_DEAD)]
      [] h.kind = "Route" ->
            IF h.addrs.destination # NoAddr
               /\ is_not_local_addr(h.addrs.destination)
            THEN [some |-> TRUE, index |-> h.index, is_alive |-> HasBit(h.flags, RTF_UP)]
            ELSE [some |-> FALSE, index |-> 0, is_alive |-> FALSE]

\* Some((index, is_alive)) of the header, or None where the code returns early
header_liveness(h) ==
    CASE h.kind = "Link" ->
            IF h.operation = "Info"
            THEN [some |-> TRUE, index |-> h.index,
                  is_alive |-> HasBit(h.flags, IFF_UP) /\ HasBit(h.flags, IFF_RUNNING)]
            ELSE [some |-> FALSE, index |-> 0, is_alive |-> FALSE]
      [] h.kind = "Address" ->
            IF h.operation = "Add"
            THEN [some |-> TRUE, index |-> h.index,
                  is_alive |-> HasBit(h.flags, RTF_UP) /\ ~HasBit(h.flags, RTF_DEAD)]
            ELSE [some |-> FALSE, index |-> 0, is_alive |-> FALSE]
      [] h.kind = "Route" ->
            IF h.operation \in {"Add", "Get"}
               /\ h.addrs.destination # NoAddr
               /\ is_not_local_addr(h.addrs.destination)
            THEN [some |-> TRUE, index |-> h.index, is_alive |-> HasBit(h.flags, RTF_UP)]
            ELSE [some |-> FALSE, index |-> 0, is_alive |-> FALSE]

match_spec_link_index(h, spec, index, is_alive) ==
    IF spec.tag = "Index"
    THEN IF (IF h.addrs.interface_link.fam = "Link"
             THEN h.addrs.interface_link.index ELSE index) # spec.idx THEN FALSE
         ELSE IF is_alive
              THEN IF h.addrs.destination.fam = "V4"
                      /\ h.addrs.destination.ip = ZERO_IPV4 THEN TRUE
                   ELSE IF h.addrs.destination.fam = "V6"
                           /\ h.addrs.destination.ip = ZERO_IPV6 THEN TRUE
                   ELSE IF h.addrs.interface_addr # NoAddr
                        THEN is_not_local_addr(h.addrs.interface_addr)
                        ELSE FALSE
              ELSE FALSE
    ELSE FALSE

\* a final match that lets a name through on liveness alone
match_spec_name_is_alive(h, spec, index, is_alive) ==
    IF spec.tag = "Index"
    THEN IF index # spec.idx THEN FALSE
         ELSE IF is_alive
              THEN IF h.addrs.destination.fam = "V4"
                      /\ h.addrs.destination.ip = ZERO_IPV4 THEN TRUE
                   ELSE IF h.addrs.destination.fam = "V6"
                           /\ h.addrs.destination.ip = ZERO_IPV6 THEN TRUE
                   ELSE IF h.addrs.interface_addr # NoAddr
                        THEN is_not_local_addr(h.addrs.interface_addr)
                        ELSE FALSE
              ELSE FALSE
    ELSE is_alive

\* the final match on the effective spec, once (index, is_alive) is known
match_spec(h, spec, index, is_alive) ==
    IF spec.tag = "Index"
    THEN IF index # spec.idx THEN FALSE
         ELSE IF is_alive
              THEN IF h.addrs.destination.fam = "V4"
                      /\ h.addrs.destination.ip = ZERO_IPV4 THEN TRUE
                   ELSE IF h.addrs.destination.fam = "V6"
                           /\ h.addrs.destination.ip = ZERO_IPV6 THEN TRUE
                   ELSE IF h.addrs.interface_addr # NoAddr
                        THEN is_not_local_addr(h.addrs.interface_addr)
                        ELSE FALSE
              ELSE FALSE
    ELSE FALSE

is_given_interface_running(h, given_spec) ==
    LET upd == updated_index(h, given_spec)
        spec == IF upd.some THEN IndexSpec(upd.idx) ELSE given_spec
        live == header_liveness(h)
    IN  IF ~live.some
        THEN [ready |-> FALSE, updated_index |-> upd]
        ELSE [ready |-> match_spec(h, spec, live.index, live.is_alive),
              updated_index |-> upd]

(***************************************************************************)
(* Requests (socket.rs): the header fields the builders set to something   *)
(* other than zero, and the socket-address records that follow the header. *)
(* query names the builder.                                                *)
(***************************************************************************)
INT_REQ_SIZE == ADDR_LEN + HDR_LEN

\* sockaddr_in { sin_len, sin_family, sin_port, sin_addr, sin_zero: [0; 8] }
sockaddr_in(port, addr) ==
    [sa_len |-> SOCKADDR_IN_LEN, sa_family |-> AF_INET, sin_port |-> port,
     sin_addr |-> addr]

\* sockaddr_dl { sdl_len, sdl_family, sdl_index, sdl_type, sdl_nlen, sdl_alen,
\*               sdl_slen, sdl_data: [0; 12] }
sockaddr_dl(family, index) ==
    [sa_len |-> ADDR_LEN, sa_family |-> family, sdl_index |-> index,
     sdl_type |-> 0, sdl_nlen |-> 0, sdl_alen |-> 0, sdl_slen |-> 0]

default_ipv4_request_interface_size(s) ==
    [query |-> "default_ipv4", rtm_msglen |-> INT_REQ_SIZE, rtm_type |-> "Get",
     rtm_index |-> 0, rtm_flags |-> RTF_UP + RTF_GATEWAY,
     rtm_addrs |-> RTA_DST + RTA_NETMASK, rtm_seq |-> s,
     rtm_inits |-> RTV_HOPCOUNT,
     records |-> <<sockaddr_in(0, 0)>>]

default_ipv4_request(s) ==
    [query |-> "default_ipv4", rtm_msglen |-> HDR_LEN + 2 * SOCKADDR_IN_LEN,
     rtm_type |-> "Get", rtm_index |-> 0, rtm_flags |-> RTF_UP + RTF_GATEWAY,
     rtm_addrs |-> RTA_DST + RTA_NETMASK, rtm_seq |-> s,
     rtm_inits |-> RTV_HOPCOUNT,
     records |-> <<sockaddr_in(0, 0), sockaddr_in(0, 0)>>]

interface_info_req(if_idx, s) ==
    [query |-> "interface_info", rtm_msglen |-> INT_REQ_SIZE, rtm_type |-> "Get",
     rtm_index |-> if_idx, rtm_flags |-> RTF_IFSCOPE + RTF_HOST,
     rtm_addrs |-> RTA_DST + RTA_IFP + RTA_IFA, rtm_seq |-> s, rtm_inits |-> 0,
     records |-> <<sockaddr_dl(AF_INET, if_idx)>>]

\* RouteSocket::get_seq: self.seq += 1; self.seq.  seq is the counter after
\* the call, ret the value handed to the request builder.
get_seq_returns_old(s) == [seq |-> s + 1, ret |-> s]

get_seq(s) == [seq |-> s + 1, ret |-> s + 1]

\* errno of a failed write_all, 0 for a complete write
WriteOutcomes == {0, ESRCH, 13, 55}
\* errno of a failed read
ReadErrnos == {5, 11, 35}
\* errno of a failed kevent
KeventErrnos == {4, 11, 35}

OkResult == [ok |-> TRUE, errno |-> 0]
ErrResult(e) == [ok |-> FALSE, errno |-> e]

\* RouteSocket::send, given what write_all returned
send_masks_nothing(w) == IF w # 0 THEN ErrResult(w) ELSE OkResult

send(w) == IF w # 0 /\ w # ESRCH THEN ErrResult(w) ELSE OkResult

(***************************************************************************)
(* Outcomes of a run and the exit status main() gives them.                *)
(***************************************************************************)
Running == [tag |-> "Running", errno |-> 0]
Success == [tag |-> "Ok", errno |-> 0]
ErrIO(e) == [tag |-> "IO", errno |-> e]
ErrTimeout == [tag |-> "Timeout", errno |-> 0]
ErrParsingAddress == [tag |-> "ParsingAddress", errno |-> 0]
Panicked == [tag |-> "Panic", errno |-> 0]

\* a conversion that keeps every errno as an I/O error
read_error_from_io_keeps_errno(e) == ErrIO(e)

\* impl From<io::Error> for ReadError
read_error_from_io(e) == IF e = 11 \/ e = 35 THEN ErrTimeout ELSE ErrIO(e)

\* impl From<Errno> for ReadError
read_error_from_errno(e) == ErrIO(e)

exit_code(r) ==
    CASE r.tag = "Ok" -> 0
      [] r.tag = "IO" -> 1
      [] r.tag = "Timeout" -> 2
      [] r.tag = "ParsingAddress" -> 3
      [] r.tag = "Panic" -> PANIC_STATUS

(***************************************************************************)
(* The program state.                                                      *)
(***************************************************************************)
VARIABLES
    pc,         \* "start", "opened", "waiting", "blocked", "got", "exit"
    args,       \* the command line: wait-condition flag and timeout
    wait_cond,  \* real_main's wait_cond
    seq,        \* RouteSocket.seq
    sent,       \* the requests handed to write_all, in order, with the errno
    last_send,  \* what the last call of send returned
    packet,     \* the event recv returned to the loop, until the next recv
    result,     \* what real_main returned (or Panicked)
    now,        \* the clock, in seconds
    opened_at,  \* the time RouteSocket::new returned
    armed,      \* the kqueue timer is registered
    deadline,   \* when the registered timer fires
    skipped,    \* messages the current recv call read and skipped (None)
    input,      \* the arguments of the decoder function under check
    output      \* what that function returned

vars == <<pc, args, wait_cond, seq, sent, last_send, packet, result,
          now, opened_at, armed, deadline, skipped, input, output>>

\* no decoder call is under check
NoInput == [fn |-> "none"]
NoOutput == [tag |-> "none"]

NoTimeout == [some |-> FALSE, secs |-> 0]
SomeTimeout(t) == [some |-> TRUE, secs |-> t]

Flags == {"DefaultRouteExists", "InterfaceHasAddress", "InterfaceHasRoute"}

\* args.interface: the interface flags carry a name, default-route none
interface_of(flag) == IF flag = "DefaultRouteExists" THEN "" ELSE TargetName

InitWith(timeouts) ==
    /\ pc = "start"
    /\ args \in [flag : Flags, timeout : timeouts]
    /\ wait_cond = Unset
    /\ seq = 0
    /\ sent = <<>>
    /\ last_send = [called |-> FALSE, write |-> 0, ret |-> OkResult]
    /\ packet = NoPacket
    /\ result = Running
    /\ now = 0
    /\ opened_at = 0
    /\ armed = FALSE
    /\ deadline = 0
    /\ skipped = 0
    /\ input = NoInput
    /\ output = NoOutput

Init == InitWith({NoTimeout})

InitTimeout == InitWith({SomeTimeout(t) : t \in 1..MaxTimeout})

Exit(r) ==
    /\ pc' = "exit"
    /\ result' = r

(***************************************************************************)
(* RouteSocket::new(args.timeout_secs).unwrap()                            *)
(***************************************************************************)
Open ==
    /\ pc = "start"
    /\ \E r \in {"ok", "CreatingSocket", "CreatingKqueue"} :
          IF r = "ok"
          THEN /\ pc' = "opened"
               /\ opened_at' = now
               /\ UNCHANGED result
          ELSE /\ Exit(Panicked)
               /\ UNCHANGED opened_at
    /\ UNCHANGED <<args, wait_cond, seq, sent, last_send, packet, now, armed, deadline, skipped>>
    /\ UNCHANGED <<input, output>>

(***************************************************************************)
(* The match on args.interface: send the initial request and set wait_cond *)
(***************************************************************************)
SendRequest(req, w, cond) ==
    /\ seq' = get_seq(seq).seq
    /\ sent' = Append(sent, [req |-> req, write |-> w])
    /\ last_send' = [called |-> TRUE, write |-> w, ret |-> send(w)]
    /\ IF send(w).ok
       THEN /\ pc' = "waiting"
            /\ wait_cond' = cond
            /\ UNCHANGED result
       ELSE /\ Exit(Panicked)
            /\ UNCHANGED wait_cond

RequestDefault ==
    /\ pc = "opened"
    /\ interface_of(args.flag) = ""
    /\ \E w \in WriteOutcomes :
          SendRequest(default_ipv4_request(get_seq(seq).ret), w, AnyDefaultRoute)
    /\ UNCHANGED <<args, packet, now, opened_at, armed, deadline, skipped>>
    /\ UNCHANGED <<input, output>>

RequestInterface ==
    /\ pc = "opened"
    /\ interface_of(args.flag) # ""
    /\ \E v \in Indexes, w \in WriteOutcomes :
          SendRequest(interface_info_req(v, get_seq(seq).ret), w, Interface(IndexSpec(v)))
    /\ UNCHANGED <<args, packet, now, opened_at, armed, deadline, skipped>>
    /\ UNCHANGED <<input, output>>

\* get_ifindex failed: track the interface by name, nothing is sent
TrackByName ==
    /\ pc = "opened"
    /\ interface_of(args.flag) # ""
    /\ pc' = "waiting"
    /\ wait_cond' = Interface(NameSpec(interface_of(args.flag)))
    /\ UNCHANGED <<args, seq, sent, last_send, packet, result, now, opened_at,
                   armed, deadline, skipped>>
    /\ UNCHANGED <<input, output>>

(***************************************************************************)
(* RouteSocket::recv.  Each pass of its loop calls kevent with the         *)
(* changelist self.events: the read filter and, with a timeout, the timer  *)
(* (EV_ADD | EV_ONESHOT | EV_ENABLE, NOTE_SECONDS, sec).  Registering a    *)
(* timer that is already registered re-arms it with the given period.      *)
(***************************************************************************)
kevent_register ==
    IF args.timeout.some
    THEN /\ armed' = TRUE
         /\ deadline' = now + args.timeout.secs
    ELSE UNCHANGED <<armed, deadline>>

\* a loop that calls rs.recv() again after it has returned
Kevent_after_return ==
    /\ pc \in {"waiting", "exit"}
    /\ pc' = "blocked"
    /\ packet' = NoPacket
    /\ skipped' = 0
    /\ kevent_register
    /\ UNCHANGED <<args, wait_cond, seq, sent, last_send, result, now, opened_at>>
    /\ UNCHANGED <<input, output>>

\* the loop calls rs.recv(): the first kevent call of the recv
Kevent ==
    /\ pc = "waiting"
    /\ pc' = "blocked"
    /\ packet' = NoPacket
    /\ skipped' = 0
    /\ kevent_register
    /\ UNCHANGED <<args, wait_cond, seq, sent, last_send, result, now, opened_at>>
    /\ UNCHANGED <<input, output>>

\* kevent itself fails: `?` converts the Errno
KeventFails ==
    /\ pc = "blocked"
    /\ \E e \in KeventErrnos : Exit(read_error_from_errno(e))
    /\ UNCHANGED <<args, wait_cond, seq, sent, last_send, packet, now, opened_at,
                   armed, deadline, skipped>>
    /\ UNCHANGED <<input, output>>

\* the first event returned is the timer
TimerFires ==
    /\ pc = "blocked"
    /\ armed
    /\ now >= deadline
    /\ armed' = FALSE
    /\ Exit(ErrTimeout)
    /\ UNCHANGED <<args, wait_cond, seq, sent, last_send, packet, now, opened_at,
                   deadline, skipped>>
    /\ UNCHANGED <<input, output>>

\* the socket is readable and the read fails
ReadFails ==
    /\ pc = "blocked"
    /\ \E e \in ReadErrnos : Exit(read_error_from_io(e))
    /\ UNCHANGED <<args, wait_cond, seq, sent, last_send, packet, now, opened_at,
                   armed, deadline, skipped>>
    /\ UNCHANGED <<input, output>>

\* Header::from_raw returns Err
DecodeFails ==
    /\ pc = "blocked"
    /\ Exit(ErrParsingAddress)
    /\ UNCHANGED <<args, wait_cond, seq, sent, last_send, packet, now, opened_at,
                   armed, deadline, skipped>>
    /\ UNCHANGED <<input, output>>

DecodeNone_returns_to_loop ==
    /\ pc = "blocked"
    /\ skipped < MaxSkipped
    /\ skipped' = skipped + 1
    /\ pc' = "waiting"
    /\ kevent_register
    /\ UNCHANGED <<args, wait_cond, seq, sent, last_send, packet, result, now,
                   opened_at>>
    /\ UNCHANGED <<input, output>>

\* Header::from_raw returns None: continue, which calls kevent again
DecodeNone ==
    /\ pc = "blocked"
    /\ skipped < MaxSkipped
    /\ skipped' = skipped + 1
    /\ kevent_register
    /\ UNCHANGED <<pc, args, wait_cond, seq, sent, last_send, packet, result, now,
                   opened_at>>
    /\ UNCHANGED <<input, output>>

\* Header::from_raw returns Some(e): recv returns it
RecvEvent(delivered) ==
    /\ pc = "blocked"
    /\ pc' = "got"
    /\ \E e \in delivered : packet' = e
    /\ UNCHANGED <<args, wait_cond, seq, sent, last_send, result, now, opened_at,
                   armed, deadline, skipped>>
    /\ UNCHANGED <<input, output>>

\* a loop body that queries the interface again when it latches an index
Evaluate_requests_on_latch ==
    /\ pc = "got"
    /\ wait_cond.kind = "Interface"
    /\ LET r == is_given_interface_running(packet, wait_cond.spec)
       IN  IF r.ready
           THEN Exit(Success) /\ UNCHANGED <<wait_cond, seq, sent, last_send>>
           ELSE /\ pc' = "waiting"
                /\ UNCHANGED result
                /\ IF r.updated_index.some
                   THEN /\ wait_cond' = Interface(IndexSpec(r.updated_index.idx))
                        /\ seq' = seq + 1
                        /\ sent' = Append(sent,
                               [req |-> interface_info_req(r.updated_index.idx, seq + 1),
                                write |-> 0])
                        /\ last_send' = [called |-> TRUE, write |-> 0, ret |-> send(0)]
                   ELSE UNCHANGED <<wait_cond, seq, sent, last_send>>
    /\ UNCHANGED <<args, packet, now, opened_at, armed, deadline, skipped>>
    /\ UNCHANGED <<input, output>>

(***************************************************************************)
(* The body of real_main's loop after recv returned.                       *)
(***************************************************************************)
Evaluate ==
    /\ pc = "got"
    /\ IF wait_cond.kind = "AnyDefaultRoute"
       THEN IF is_ready_default_route(packet)
            THEN Exit(Success) /\ UNCHANGED wait_cond
            ELSE pc' = "waiting" /\ UNCHANGED <<wait_cond, result>>
       ELSE LET r == is_given_interface_running(packet, wait_cond.spec)
            IN  IF r.ready
                THEN Exit(Success) /\ UNCHANGED wait_cond
                ELSE /\ pc' = "waiting"
                     /\ wait_cond' = IF r.updated_index.some
                                     THEN Interface(IndexSpec(r.updated_index.idx))
                                     ELSE wait_cond
                     /\ UNCHANGED result
    /\ UNCHANGED <<args, seq, sent, last_send, packet, now, opened_at, armed,
                   deadline, skipped>>
    /\ UNCHANGED <<input, output>>

(***************************************************************************)
(* Time.  The clock advances while the process is blocked in kevent; a due *)
(* timer is delivered before the clock advances further.                   *)
(***************************************************************************)
Tick ==
    /\ pc = "blocked"
    /\ now < MaxTime
    /\ ~(armed /\ now >= deadline)
    /\ now' = now + 1
    /\ UNCHANGED <<pc, args, wait_cond, seq, sent, last_send, packet, result,
                   opened_at, armed, deadline, skipped>>
    /\ UNCHANGED <<input, output>>

\* the events delivered in runs with a timeout
TimedEvents ==
    {e \in Events :
        /\ e.index = 7
        /\ e.operation \in {"Add", "Info"}
        /\ e.flags \in {RTF_UP, RTF_UP + RTF_GATEWAY, IFF_UP + IFF_RUNNING}
        /\ e.addrs.destination \in {NoAddr, V4(0, 0, 0, 0), V4(10, 0, 0, 0)}
        /\ e.addrs.interface_addr \in {NoAddr, V4(192, 0, 2, 10)}
        /\ e.addrs.interface_link \in {NoAddr, LinkAddr(TargetName, 7)}}

Next ==
    \/ Open
    \/ RequestDefault
    \/ RequestInterface
    \/ TrackByName
    \/ Kevent
    \/ KeventFails
    \/ ReadFails
    \/ DecodeFails
    \/ DecodeNone
    \/ RecvEvent(Events)
    \/ Evaluate

Spec == Init /\ [][Next]_vars

NextTimeout ==
    \/ Open
    \/ RequestDefault
    \/ RequestInterface
    \/ TrackByName
    \/ Kevent
    \/ KeventFails
    \/ TimerFires
    \/ ReadFails
    \/ DecodeFails
    \/ DecodeNone
    \/ RecvEvent(TimedEvents)
    \/ Evaluate
    \/ Tick

SpecTimeout == InitTimeout /\ [][NextTimeout]_vars

\* runs with and without --timeout
InitAnyTimeout == InitWith({NoTimeout} \cup {SomeTimeout(t) : t \in 1..MaxTimeout})

SpecAnyTimeout == InitAnyTimeout /\ [][NextTimeout]_vars

\* the loop body is straight-line code: once recv has returned, the
\* evaluation of the packet runs
NextFair ==
    \/ Open
    \/ RequestDefault
    \/ RequestInterface
    \/ TrackByName
    \/ Kevent
    \/ KeventFails
    \/ ReadFails
    \/ DecodeFails
    \/ DecodeNone
    \/ RecvEvent(TimedEvents)
    \/ Evaluate

SpecFair == Init /\ [][NextFair]_vars /\ WF_vars(Evaluate)

(***************************************************************************)
(* The route socket on its own: a caller that holds an open RouteSocket    *)
(* and calls its two request methods in any order, whatever each returned. *)
(***************************************************************************)
request_default_ipv4 ==
    /\ pc = "opened"
    /\ Len(sent) < MaxRequests
    /\ \E w \in WriteOutcomes :
          /\ seq' = get_seq(seq).seq
          /\ sent' = Append(sent, [req |-> default_ipv4_request(get_seq(seq).ret),
                                   write |-> w])
          /\ last_send' = [called |-> TRUE, write |-> w, ret |-> send(w)]
    /\ UNCHANGED <<pc, args, wait_cond, packet, result, now, opened_at, armed,
                   deadline, skipped>>
    /\ UNCHANGED <<input, output>>

request_interface_info ==
    /\ pc = "opened"
    /\ Len(sent) < MaxRequests
    /\ \E if_idx \in Indexes, w \in WriteOutcomes :
          /\ seq' = get_seq(seq).seq
          /\ sent' = Append(sent, [req |-> interface_info_req(if_idx, get_seq(seq).ret),
                                   write |-> w])
          /\ last_send' = [called |-> TRUE, write |-> w, ret |-> send(w)]
    /\ UNCHANGED <<pc, args, wait_cond, packet, result, now, opened_at, armed,
                   deadline, skipped>>
    /\ UNCHANGED <<input, output>>

NextSocket ==
    \/ Open
    \/ request_default_ipv4
    \/ request_interface_info

SpecSocket == Init /\ [][NextSocket]_vars

(***************************************************************************)
(* The socket-address decoder (addresses.rs).  The decoder reads structs   *)
(* through raw pointers into the slice it is given: m.data is the slice,   *)
(* and a read past its end finds whatever the receive buffer holds there,  *)
(* m.stale.  off is the offset of the record in the slice and n the        *)
(* length of the slice, so that data[off..] is empty iff off >= n.         *)
(***************************************************************************)
Byte(m, i) == IF i < Len(m.data) THEN m.data[i + 1] ELSE m.stale

\* a u16 struct field as the (little-endian) host reads it
u16_ne(m, i) == Byte(m, i) + 256 * Byte(m, i + 1)
\* a u32 struct field as the host reads it.  A u32 is kept as its four
\* base-256 digits, most significant first.
u32_ne(m, i) == <<Byte(m, i + 3), Byte(m, i + 2), Byte(m, i + 1), Byte(m, i)>>

\* u16::from_be, u32::from_be and u32::to_be_bytes on a little-endian host
u16_from_be(x) == (x % 256) * 256 + (x \div 256)
u32_from_be(x) == <<x[4], x[3], x[2], x[1]>>
to_be_bytes(x) == <<x[1], x[2], x[3], x[4]>>

\* impl NetStruct<sockaddr_in> for SocketAddrV4
SocketAddrV4_from_raw_host_order_port(m, off) ==
    [fam |-> "V4",
     ip |-> to_be_bytes(u32_from_be(u32_ne(m, off + 4))),
     port |-> u16_ne(m, off + 2)]

SocketAddrV4_from_raw(m, off) ==
    [fam |-> "V4",
     ip |-> to_be_bytes(u32_from_be(u32_ne(m, off + 4))),
     port |-> u16_from_be(u16_ne(m, off + 2))]

\* Ipv6Addr::from([u8; 16]): the eight segments of sixteen octets
Ipv6Segments(m, i) ==
    [k \in 1..8 |-> Byte(m, i + 2 * (k - 1)) * 256 + Byte(m, i + 2 * (k - 1) + 1)]

\* impl NetStruct<sockaddr_in6> for SocketAddrV6
SocketAddrV6_from_raw(m, off) ==
    [fam |-> "V6",
     ip |-> Ipv6Segments(m, off + 8),
     port |-> u16_from_be(u16_ne(m, off + 2)),
     flowinfo |-> u32_ne(m, off + 4),
     scope_id |-> u32_ne(m, off + 24)]

\* U+FFFD, which String::from_utf8_lossy puts in place of an invalid byte
REPLACEMENT_CHARACTER == 65533
\* size of sockaddr_dl.sdl_data
SDL_DATA_LEN == 12

\* String::from_utf8_lossy, as code points, for single-byte input
from_utf8_lossy(bytes) ==
    [k \in 1..Len(bytes) |->
        IF bytes[k] < 128 THEN bytes[k] ELSE REPLACEMENT_CHARACTER]

\* Results of the record parsers: Ok((val, len)), Err(err) or a panic
OkAddr(v, len) == [tag |-> "Ok", val |-> v, len |-> len, err |-> "none"]
ErrAddr(e) == [tag |-> "Err", val |-> NoAddr, len |-> 0, err |-> e]
PanicAddr == [tag |-> "Panic", val |-> NoAddr, len |-> 0, err |-> "none"]

\* DataLinkAddr::from_raw; the two slices of sdl_data panic out of range
DataLinkAddr_from_raw(m, off) ==
    LET nlen == Byte(m, off + 5)
        alen == Byte(m, off + 6)
        data == [k \in 1..SDL_DATA_LEN |-> Byte(m, off + 8 + (k - 1))]
    IN  IF Byte(m, off + 1) # AF_LINK \/ nlen + alen > SDL_DATA_LEN
        THEN PanicAddr
        ELSE OkAddr([fam |-> "Link",
                     index |-> u16_ne(m, off + 2),
                     link_layer_addr |-> SubSeq(data, nlen + 1, nlen + alen),
                     interface_name |-> from_utf8_lossy(SubSeq(data, 1, nlen))],
                    Byte(m, off))

\* SockAddr::from_raw(&data[off..])
SockAddr_from_raw(m, off, n) ==
    IF off >= n
    THEN ErrAddr("DataEmpty")
    ELSE LET family == Byte(m, off + 1)
             len == Byte(m, off)
         IN  CASE family = AF_INET -> OkAddr(SocketAddrV4_from_raw(m, off), len)
               [] family = AF_INET6 -> OkAddr(SocketAddrV6_from_raw(m, off), len)
               [] family = AF_LINK -> DataLinkAddr_from_raw(m, off)
               [] OTHER -> IF len = 0 THEN PanicAddr ELSE OkAddr(NoAddr, len)

\* parse_address(&data[off..]): SockAddr::from_raw(data).unwrap()
parse_address(m, off, n) ==
    IF off >= n
    THEN ErrAddr("DataEmpty")
    ELSE LET r == SockAddr_from_raw(m, off, n)
         IN  IF r.tag = "Err" THEN PanicAddr ELSE r

\* parse_link(&data[off..])
parse_link(m, off, n) ==
    IF off >= n
    THEN ErrAddr("DataEmpty")
    ELSE DataLinkAddr_from_raw(m, off)

\* parse_ip(&data[off..]); the empty check is commented out in the source
parse_ip(m, off, n) ==
    LET family == Byte(m, off + 1)
        len == Byte(m, off)
    IN  CASE family = AF_INET -> OkAddr(SocketAddrV4_from_raw(m, off), len)
          [] family = AF_INET6 -> OkAddr(SocketAddrV6_from_raw(m, off), len)
          [] OTHER -> ErrAddr("WrongFamily")

(***************************************************************************)
(* AddressSet::from_raw(data, flags).  The function is a run of eight      *)
(* blocks, one per slot, in the order of SlotOrder; each runs when its bit *)
(* is set in flags.  st is the state between blocks: the AddressSet built  *)
(* so far, the offset, and steps, the slots parsed with the offset each    *)
(* was parsed at (what the function traces).                               *)
(***************************************************************************)
SlotOrder ==
    <<"destination", "gateway", "netmask", "genmask", "interface_link",
      "interface_addr", "author", "broadcast">>

\* the bit each AddressFlags::has_* tests
SlotBit(slot) ==
    CASE slot = "destination" -> RTA_DST
      [] slot = "gateway" -> RTA_GATEWAY
      [] slot = "netmask" -> RTA_NETMASK
      [] slot = "genmask" -> RTA_GENMASK
      [] slot = "interface_addr" -> RTA_IFA
      [] slot = "interface_link" -> RTA_IFP
      [] slot = "author" -> RTA_AUTHOR
      [] slot = "broadcast" -> RTA_BRD

has_slot(flags, slot) == HasBit(flags, SlotBit(slot))

EmptyAddressSet ==
    [destination |-> NoAddr, gateway |-> NoAddr, netmask |-> NoAddr,
     genmask |-> NoAddr, broadcast |-> NoAddr, interface_addr |-> NoAddr,
     interface_link |-> NoAddr]

\* IpAddr::V4(*a.ip()) / IpAddr::V6(*a.ip()): the address without the port
IpAddr(a) == [fam |-> a.fam, ip |-> a.ip]

\* the Err arm of the netmask block: the raw-address fallback
netmask_fallback(m, off, n, info, e) ==
    LET sample == IF info.destination # NoAddr THEN info.destination
                  ELSE info.gateway
    IN  CASE sample.fam = "V4" ->
               IF off + 4 > n THEN PanicAddr
               ELSE OkAddr([fam |-> "V4",
                            ip |-> [k \in 1..4 |-> Byte(m, off + (k - 1))]], 4)
          [] sample.fam = "V6" ->
               IF off + 16 > n THEN PanicAddr
               ELSE OkAddr([fam |-> "V6", ip |-> Ipv6Segments(m, off)], 16)
          [] sample.fam = "Link" -> PanicAddr
          [] OTHER -> ErrAddr(e)

\* what the block of a slot gets from its parser: Ok((value, len)) etc.
slot_parse(m, off, n, info, slot) ==
    CASE slot \in {"destination", "gateway", "interface_addr", "author"} ->
           parse_address(m, off, n)
      [] slot = "netmask" ->
           LET r == parse_ip(m, off, n)
           IN  IF r.tag = "Ok" THEN OkAddr(IpAddr(r.val), r.len)
               ELSE netmask_fallback(m, off, n, info, r.err)
      [] slot \in {"genmask", "broadcast"} -> parse_ip(m, off, n)
      [] slot = "interface_link" -> parse_link(m, off, n)

\* the block of one slot
slot_block(m, flags, n, st, slot) ==
    IF st.status # "run" \/ ~has_slot(flags, slot)
    THEN st
    ELSE IF st.offset >= n
    THEN [st EXCEPT !.status = "ok", !.early = TRUE]
    ELSE LET r == slot_parse(m, st.offset, n, st.info, slot)
             step == [slot |-> slot, offset |-> st.offset, len |-> r.len,
                      tag |-> r.tag]
         IN  CASE r.tag = "Panic" ->
                    [st EXCEPT !.status = "panic", !.steps = Append(@, step)]
               [] r.tag = "Err" ->
                    [st EXCEPT !.status = "err", !.err = r.err,
                               !.steps = Append(@, step)]
               [] OTHER ->
                    [st EXCEPT
                       !.info = IF slot = "author" THEN @
                                ELSE [@ EXCEPT ![slot] = r.val],
                       !.offset = IF slot = "broadcast" THEN @ ELSE @ + r.len,
                       !.steps = Append(@, step)]

RECURSIVE from_raw_blocks(_, _, _, _, _)
from_raw_blocks(m, flags, n, st, k) ==
    IF k > Len(SlotOrder)
    THEN IF st.status = "run" THEN [st EXCEPT !.status = "ok"] ELSE st
    ELSE from_raw_blocks(m, flags, n, slot_block(m, flags, n, st, SlotOrder[k]),
                         k + 1)

\* AddressSet::from_raw(&m.data[..], flags)
AddressSet_from_raw(m, flags) ==
    from_raw_blocks(m, flags, Len(m.data),
                    [status |-> "run", offset |-> 0, info |-> EmptyAddressSet,
                     steps |-> <<>>, err |-> "none", early |-> FALSE],
                    1)

(***************************************************************************)
(* Input of the decoders: socket-address records as the kernel packs them  *)
(* behind a message header.  A record is described by what it holds and    *)
(* Wire gives its bytes; a stream is a sequence of records packed back to  *)
(* back, each as long as its length byte says.                             *)
(***************************************************************************)
Zeros(k) == [i \in 1..k |-> 0]

\* sockaddr_in: sin_len, sin_family, sin_port and sin_addr in network order
V4Record(ip, port) == [kind |-> "V4", ip |-> ip, port |-> port]
\* sockaddr_in6: sin6_len, sin6_family, sin6_port, sin6_flowinfo, sin6_addr,
\* sin6_scope_id
V6Record(ip, port) == [kind |-> "V6", ip |-> ip, port |-> port]
\* sockaddr_dl: sdl_len, sdl_family, sdl_index, sdl_type, sdl_nlen, sdl_alen,
\* sdl_slen, sdl_data (name, then link-layer address)
LinkRecord(index, name, lladdr) ==
    [kind |-> "Link", index |-> index, name |-> name, lladdr |-> lladdr]
\* a record of a family the decoder has no arm for: length, family, padding
OtherRecord(family, len) == [kind |-> "Other", family |-> family, len |-> len]
\* address bytes with no length and family bytes in front
RawRecord(bytes) == [kind |-> "Raw", bytes |-> bytes]

Wire(r) ==
    CASE r.kind = "V4" ->
           <<SOCKADDR_IN_LEN, AF_INET, r.port \div 256, r.port % 256>>
               \o r.ip \o Zeros(8)
      [] r.kind = "V6" ->
           <<28, AF_INET6, r.port \div 256, r.port % 256>> \o Zeros(4)
               \o [k \in 1..16 |-> IF k % 2 = 1 THEN r.ip[(k + 1) \div 2] \div 256
                                   ELSE r.ip[k \div 2] % 256]
               \o Zeros(4)
      [] r.kind = "Link" ->
           <<ADDR_LEN, AF_LINK, r.index % 256, r.index \div 256, 6,
             Len(r.name), Len(r.lladdr), 0>>
               \o r.name \o r.lladdr
               \o Zeros(SDL_DATA_LEN - Len(r.name) - Len(r.lladdr))
      [] r.kind = "Other" -> <<r.len, r.family>> \o Zeros(r.len - 2)
      [] r.kind = "Raw" -> r.bytes

RECURSIVE WireAll(_)
WireAll(stream) ==
    IF stream = <<>> THEN <<>> ELSE Wire(Head(stream)) \o WireAll(Tail(stream))

\* "en0"
EN0 == <<101, 110, 48>>

\* the records the address-set streams are made of
StreamRecords ==
    {V4Record(<<10, 0, 0, 0>>, 0),
     V6Record(<<65152, 0, 0, 0, 0, 0, 0, 1>>, 0),
     LinkRecord(7, EN0, <<2, 0, 0, 0, 0, 1>>),
     OtherRecord(1, 8),
     RawRecord(<<255, 255, 0, 0>>),
     RawRecord(<<255, 255, 255, 255, 255, 255, 255, 255, 0, 0, 0, 0, 0, 0, 0, 0>>)}

RECURSIVE PopCount(_)
PopCount(f) == IF f = 0 THEN 0 ELSE (f % 2) + PopCount(f \div 2)

\* every "addresses present" mask of at most MaxRecords bits
Masks == {f \in 0..255 : PopCount(f) <= MaxRecords}

AddressSetInput(flags, stream) ==
    [fn |-> "AddressSet::from_raw", flags |-> flags, stream |-> stream,
     data |-> WireAll(stream), stale |-> 0]

\* a mask, and a stream of at most as many records as the mask has bits
\* or a slice that ends inside its only record, with any bytes behind it
IsAddressSetInput(i) ==
    \/ \E f \in Masks : \E j \in 0..PopCount(f) : \E s \in [1..j -> StreamRecords] :
          i = AddressSetInput(f, s)
    \/ \E f \in Masks, r \in StreamRecords, k \in {1, 4, 8}, st \in {0, 255} :
          /\ r.kind # "Raw"
          /\ i = [AddressSetInput(f, <<RawRecord(SubSeq(Wire(r), 1, k))>>)
                    EXCEPT !.stale = st]

Octets == {0, 1, 10, 255}
Ports == {0, 1, 80, 256, 443, 65535}

SockAddrInput(r) ==
    [fn |-> "SockAddr::from_raw", flags |-> 0, stream |-> <<r>>,
     data |-> Wire(r), stale |-> 0]

\* one record: an IPv4 record of any octets and port, or a stream record
\* a slice that ends inside its record, with any bytes behind it; a record
\* of length 0 of any family; or a link-level record of any length with a
\* name and a link-layer address that fit in it
IsSockAddrInput(i) ==
    \/ \E a \in Octets, b \in Octets, c \in Octets, d \in Octets, p \in Ports :
          i = SockAddrInput(V4Record(<<a, b, c, d>>, p))
    \/ \E r \in StreamRecords : i = SockAddrInput(r)
    \/ \E r \in StreamRecords, st \in {0, AF_INET, AF_LINK, 255} :
          /\ r.kind # "Raw"
          /\ \E k \in 1..(Len(Wire(r)) - 1) :
                i = [SockAddrInput(RawRecord(SubSeq(Wire(r), 1, k)))
                       EXCEPT !.stale = st]
    \/ \E family \in {0, 1, AF_INET, AF_LINK, AF_INET6} :
          i = SockAddrInput(RawRecord(<<0, family>> \o Zeros(26)))
    \/ \E len \in {ADDR_LEN, ADDR_LEN + 4},
           name \in {<<>>, EN0, <<255, 110>>, <<98, 114, 105, 100, 103, 101, 49, 48, 48>>},
           lladdr \in {<<>>, <<2, 0, 0, 0, 0, 1>>} :
          /\ Len(name) + Len(lladdr) <= len - 8
          /\ i = SockAddrInput(RawRecord(
                    <<len, AF_LINK, 7, 1, 6, Len(name), Len(lladdr), 0>>
                        \o name \o lladdr
                        \o Zeros(len - 8 - Len(name) - Len(lladdr))))

(***************************************************************************)
(* The decoders on their own: one call of a decoder function on one input. *)
(***************************************************************************)
InitAddresses ==
    /\ pc = "start"
    /\ args = [flag |-> "DefaultRouteExists", timeout |-> NoTimeout]
    /\ wait_cond = Unset
    /\ seq = 0
    /\ sent = <<>>
    /\ last_send = [called |-> FALSE, write |-> 0, ret |-> OkResult]
    /\ packet = NoPacket
    /\ result = Running
    /\ now = 0
    /\ opened_at = 0
    /\ armed = FALSE
    /\ deadline = 0
    /\ skipped = 0
    /\ IsSockAddrInput(input) \/ IsAddressSetInput(input)
    /\ output = NoOutput

CallSockAddr ==
    /\ input.fn = "SockAddr::from_raw"
    /\ output = NoOutput
    /\ output' = SockAddr_from_raw(input, 0, Len(input.data))
    /\ UNCHANGED <<pc, args, wait_cond, seq, sent, last_send, packet, result,
                   now, opened_at, armed, deadline, skipped, input>>

CallAddressSet ==
    /\ input.fn = "AddressSet::from_raw"
    /\ output = NoOutput
    /\ output' = AddressSet_from_raw(input, input.flags)
    /\ UNCHANGED <<pc, args, wait_cond, seq, sent, last_send, packet, result,
                   now, opened_at, armed, deadline, skipped, input>>

NextAddresses ==
    \/ CallSockAddr
    \/ CallAddressSet

SpecAddresses == InitAddresses /\ [][NextAddresses]_vars

(***************************************************************************)
(* Messages.  A message is its header fields (type byte, length field,     *)
(* interface index, address mask) and data, the bytes behind the header    *)
(* struct its decoder reads; n is the number of bytes read from the socket *)
(* and handed to the decoder.  A decoder's result is Some(event), None, an *)
(* error or a panic.                                                       *)
(***************************************************************************)
MsgPanic == [status |-> "panic", kind |-> "None"]
MsgNone == [status |-> "none", kind |-> "None"]
MsgErr(e) == [status |-> "err", kind |-> "None", err |-> e]
MsgSome(kind, op, m, info) ==
    [status |-> "some", kind |-> kind, operation |-> op, index |-> m.rtm_index,
     addrs |-> info]

\* one `if addr_flags.has_*()` block of RouteInfo::from_raw and of
\* LinkInfo::from_raw: parse_address(&addrs_data[offset..])?
address_block(m, flags, n, st, slot) ==
    IF st.status # "run" \/ ~has_slot(flags, slot)
    THEN st
    ELSE IF st.offset > n
    THEN [st EXCEPT !.status = "panic"]
    ELSE LET r == parse_address(m, st.offset, n)
         IN  CASE r.tag = "Panic" -> [st EXCEPT !.status = "panic"]
               [] r.tag = "Err" -> [st EXCEPT !.status = "err", !.err = r.err]
               [] OTHER ->
                    [st EXCEPT
                       !.info = IF slot \in {"genmask", "interface_link", "author"}
                                THEN @ ELSE [@ EXCEPT ![slot] = r.val],
                       !.offset = IF slot = "broadcast" THEN @ ELSE @ + r.len]

RECURSIVE address_blocks(_, _, _, _, _)
address_blocks(m, flags, n, st, k) ==
    IF k > Len(SlotOrder)
    THEN st
    ELSE address_blocks(m, flags, n, address_block(m, flags, n, st, SlotOrder[k]),
                        k + 1)

\* the blocks of a decoder that has read its header and sliced data behind it
header_addresses(m, kind, op) ==
    LET st == address_blocks(m, m.rtm_addrs, Len(m.data),
                             [status |-> "run", offset |-> 0,
                              info |-> EmptyAddressSet, err |-> "none"], 1)
    IN  CASE st.status = "panic" -> MsgPanic
          [] st.status = "err" -> MsgErr(st.err)
          [] OTHER -> MsgSome(kind, op, m, st.info)

\* route.rs: the match on rtm_type, then &data[size_of::<rt_msghdr>()..]
RouteInfo_from_raw(m) ==
    LET op == CASE m.rtm_type = RTM_ADD -> "Add"
                [] m.rtm_type = RTM_DELETE -> "Delete"
                [] m.rtm_type = RTM_GET -> "Get"
                [] m.rtm_type = RTM_CHANGE -> "Change"
                [] m.rtm_type = RTM_GET2 -> "Get2"
                [] OTHER -> "None"
    IN  IF op = "None" THEN MsgNone
        ELSE IF m.n < HDR_LEN THEN MsgPanic
        ELSE header_addresses(m, "Route", op)

\* link.rs MessageType::from_raw
MessageType_from_raw(value) ==
    CASE value = RTM_IFINFO -> "Info"
      [] value = RTM_NEWADDR -> "NewAddr"
      [] value = RTM_NEWMADDR -> "NewMAddr"
      [] value = RTM_DELADDR -> "DelAddr"
      [] value = RTM_DELMADDR -> "DelMAddr"
      [] value = RTM_IFINFO2 -> "Info2"
      [] value = RTM_NEWMADDR2 -> "NewMAddr2"
      [] OTHER -> "None"

\* link.rs LinkInfo::from_raw: a slice shorter than if_msghdr is skipped
\* with a warning; the operation is unwrapped
LinkInfo_from_raw(m) ==
    IF IF_HDR_LEN > m.n THEN MsgNone
    ELSE IF MessageType_from_raw(m.rtm_type) = "None" THEN MsgPanic
    ELSE header_addresses(m, "Link", MessageType_from_raw(m.rtm_type))

\* addresses.rs AddressInfo::from_raw
AddressInfo_from_raw(m) ==
    LET op == CASE m.rtm_type = RTM_NEWADDR -> "Add"
                [] m.rtm_type = RTM_DELADDR -> "Delete"
                [] OTHER -> "None"
        set == AddressSet_from_raw(m, m.rtm_addrs)
    IN  IF op = "None" THEN MsgNone
        ELSE IF m.n < IFA_HDR_LEN THEN MsgPanic
        ELSE CASE set.status = "panic" -> MsgPanic
               [] set.status = "err" -> MsgErr(set.err)
               [] OTHER -> MsgSome("Address", op, m, set.info)

\* Header::from_raw, the switch on the type byte
Header_dispatch(m) ==
    CASE m.rtm_type \in {RTM_ADD, RTM_DELETE, RTM_CHANGE, RTM_GET, RTM_GET2,
                         RTM_OLDADD, RTM_OLDDEL} -> RouteInfo_from_raw(m)
      [] m.rtm_type \in {RTM_IFINFO, RTM_IFINFO2} -> LinkInfo_from_raw(m)
      [] m.rtm_type \in {RTM_NEWADDR, RTM_DELADDR} -> AddressInfo_from_raw(m)
      [] OTHER -> MsgNone

Header_from_raw_any_length(m) == Header_dispatch(m)

\* Header::from_raw(&buf[..n]): the header's length is asserted to be the
\* slice's, then the type byte is switched on
Header_from_raw(m) ==
    IF m.rtm_msglen # m.n THEN MsgPanic ELSE Header_dispatch(m)

MessageTypes ==
    {RTM_ADD, RTM_DELETE, RTM_CHANGE, RTM_GET, RTM_LOSING, RTM_OLDADD,
     RTM_OLDDEL, RTM_NEWADDR, RTM_DELADDR, RTM_IFINFO, RTM_NEWMADDR,
     RTM_IFINFO2, RTM_GET2}

MessageMasks == {0, RTA_DST, RTA_DST + RTA_NETMASK, RTA_IFP + RTA_IFA}

\* the records behind the headers
MessageRecords ==
    {V4Record(<<10, 0, 0, 0>>, 0),
     LinkRecord(7, EN0, <<2, 0, 0, 0, 0, 1>>),
     OtherRecord(1, 8)}

\* the header struct in front of the address records of a message
header_len(type) ==
    CASE type \in {RTM_IFINFO, RTM_IFINFO2} -> IF_HDR_LEN
      [] type \in {RTM_NEWADDR, RTM_DELADDR, RTM_NEWMADDR} -> IFA_HDR_LEN
      [] OTHER -> HDR_LEN

\* a message of header and records, read whole with a length field that is
\* right or too large by `more`, or cut short inside its header
Message(type, flags, stream, cut, more) ==
    LET n == IF cut THEN header_len(type) - 4
             ELSE header_len(type) + Len(WireAll(stream))
    IN  [fn |-> "Header::from_raw", rtm_type |-> type, rtm_index |-> 7,
         rtm_addrs |-> flags, stream |-> stream,
         data |-> IF cut THEN <<>> ELSE WireAll(stream), stale |-> 0,
         n |-> n, rtm_msglen |-> n + more]

IsMessage(i) ==
    \E t \in MessageTypes, f \in MessageMasks, more \in {0, 4} :
        \/ i = Message(t, f, <<>>, TRUE, more)
        \/ \E j \in 0..PopCount(f) : \E s \in [1..j -> MessageRecords] :
              i = Message(t, f, s, FALSE, more)

(***************************************************************************)
(* RouteSocket::recv with the message it reads: the socket is readable,    *)
(* read gives the n bytes of a message and Header::from_raw decodes them.  *)
(* Some(e) is returned to the loop, None continues with the next kevent,   *)
(* an error is returned with `?` and ends the run, a panic aborts it.      *)
(***************************************************************************)
recv_message ==
    /\ pc = "blocked"
    /\ IsMessage(input')
    /\ output' = Header_from_raw(input')
    /\ CASE output'.status = "some" ->
               /\ pc' = "got"
               /\ packet' = output'
               /\ UNCHANGED <<result, armed, deadline, skipped>>
         [] output'.status = "none" ->
               /\ skipped < MaxSkipped
               /\ skipped' = skipped + 1
               /\ kevent_register
               /\ UNCHANGED <<pc, packet, result>>
         [] output'.status = "err" ->
               /\ Exit(ErrParsingAddress)
               /\ UNCHANGED <<packet, armed, deadline, skipped>>
         [] output'.status = "panic" ->
               /\ Exit(Panicked)
               /\ UNCHANGED <<packet, armed, deadline, skipped>>
    /\ UNCHANGED <<args, wait_cond, seq, sent, last_send, now, opened_at>>

\* a run that waits for the default route, up to the event recv returns
InitMessage == Init /\ args.flag = "DefaultRouteExists"

NextMessage ==
    \/ Open
    \/ RequestDefault
    \/ Kevent
    \/ recv_message

SpecMessage == InitMessage /\ [][NextMessage]_vars

(***************************************************************************)
(* WaitConditionFlag::from_str.  A string is the sequence of its           *)
(* characters.                                                             *)
(***************************************************************************)
Separators == {"=", " ", ":"}

\* str::split: the pieces between separators, the last one included even
\* when it is empty; cur is the piece being read
RECURSIVE split(_, _)
split(s, cur) ==
    IF s = <<>> THEN <<cur>>
    ELSE IF Head(s) \in Separators THEN <<cur>> \o split(Tail(s), <<>>)
    ELSE split(Tail(s), Append(cur, Head(s)))

\* str::split_terminator: as split, without the last piece when it is empty
split_terminator(s) ==
    LET p == split(s, <<>>)
    IN  IF p[Len(p)] = <<>> THEN SubSeq(p, 1, Len(p) - 1) ELSE p

FlagOk(flag, name) == [ok |-> TRUE, flag |-> flag, name |-> name, err |-> ""]
FlagErr(e) == [ok |-> FALSE, flag |-> "", name |-> <<>>, err |-> e]

from_str(str) ==
    LET parts == split_terminator(str)
        key == parts[1]
    IN  IF parts = <<>> THEN FlagErr("missing value for wait condition")
        ELSE CASE key = <<"d", "e", "f", "a", "u", "l", "t", "-", "r", "o", "u", "t", "e">> -> FlagOk("DefaultRouteExists", <<>>)
               [] key = <<"i", "f", "-", "g", "e", "t", "s", "-", "a", "d", "d", "r", "e", "s", "s">> ->
                    IF Len(parts) < 2
                    THEN FlagErr("missing interface value for wait condition")
                    ELSE FlagOk("InterfaceHasAddress", parts[2])
               [] key = <<"i", "f", "-", "g", "e", "t", "s", "-", "r", "o", "u", "t", "e">> ->
                    IF Len(parts) < 2
                    THEN FlagErr("missing interface value for wait condition")
                    ELSE FlagOk("InterfaceHasRoute", parts[2])
               [] OTHER -> FlagErr("invalid value for wait condition")

\* what the strings given to from_str are made of: words and separators
SpecItems ==
    {<<"d", "e", "f", "a", "u", "l", "t", "-", "r", "o", "u", "t", "e">>,
     <<"i", "f", "-", "g", "e", "t", "s", "-", "a", "d", "d", "r", "e", "s", "s">>,
     <<"i", "f", "-", "g", "e", "t", "s", "-", "r", "o", "u", "t", "e">>,
     <<"e", "n", "0">>,
     <<"=">>, <<" ">>, <<":">>}

RECURSIVE Concat(_)
Concat(items) == IF items = <<>> THEN <<>> ELSE Head(items) \o Concat(Tail(items))

FromStrInput(items) == [fn |-> "WaitConditionFlag::from_str", str |-> Concat(items)]

InitFlags ==
    /\ pc = "start"
    /\ args = [flag |-> "DefaultRouteExists", timeout |-> NoTimeout]
    /\ wait_cond = Unset
    /\ seq = 0
    /\ sent = <<>>
    /\ last_send = [called |-> FALSE, write |-> 0, ret |-> OkResult]
    /\ packet = NoPacket
    /\ result = Running
    /\ now = 0
    /\ opened_at = 0
    /\ armed = FALSE
    /\ deadline = 0
    /\ skipped = 0
    /\ \E k \in 0..MaxParts : \E items \in [1..k -> SpecItems] :
          input = FromStrInput(items)
    /\ output = NoOutput

CallFromStr ==
    /\ input.fn = "WaitConditionFlag::from_str"
    /\ output = NoOutput
    /\ output' = from_str(input.str)
    /\ UNCHANGED <<pc, args, wait_cond, seq, sent, last_send, packet, result,
                   now, opened_at, armed, deadline, skipped, input>>

SpecFlags == InitFlags /\ [][CallFromStr]_vars

(***************************************************************************)
(* C1.  Every run that ends does so with exit status 0 (condition          *)
(* matched), 2 (receive timeout), 3 (parse error) or 1 (any other I/O      *)
(* failure: opening the route socket, sending the initial request,         *)
(* receiving); no failure ends the process with another status.            *)
(***************************************************************************)
C1_FourExitCodes ==
    pc = "exit" =>
        /\ exit_code(result) \in {0, 1, 2, 3}
        /\ (exit_code(result) = 0 <=> result = Success)
        /\ (exit_code(result) = 2 <=> result = ErrTimeout)
        /\ (exit_code(result) = 3 <=> result = ErrParsingAddress)

(***************************************************************************)
(* C2.  With a timeout T and no matching event, the run has ended in       *)
(* TimedOut by T after the socket was opened: the process is never still   *)
(* blocked in receive later than opened_at + T, whatever messages arrived. *)
(***************************************************************************)
C2_SingleOverallBudget ==
    (args.timeout.some /\ pc = "blocked") => now <= opened_at + args.timeout.secs

(***************************************************************************)
(* C3.  Under the default-route condition an evaluated event ends the wait *)
(* (exit 0) iff it is a Route event with operation Add, Get or Change,     *)
(* flag UP, a gateway, and an all-zeros IPv4 or IPv6 destination; every    *)
(* other event leaves the program waiting.                                 *)
(***************************************************************************)
IsAllZeros(a) ==
    /\ a.fam \in {"V4", "V6"}
    /\ \A i \in 1..Len(a.ip) : a.ip[i] = 0

DefaultRouteEvent(e) ==
    /\ e.kind = "Route"
    /\ e.operation \in {"Add", "Get", "Change"}
    /\ HasBit(e.flags, RTF_UP)
    /\ e.addrs.gateway.fam # "None"
    /\ IsAllZeros(e.addrs.destination)

\* the loop has evaluated `packet`: it either returned or went back to recv
Evaluated == packet # NoPacket /\ pc \in {"waiting", "exit"}

C3_DefaultRoute ==
    (Evaluated /\ wait_cond = AnyDefaultRoute) =>
        /\ (pc = "exit" /\ result = Success) <=> DefaultRouteEvent(packet)
        /\ pc = "waiting" <=> ~DefaultRouteEvent(packet)

C3_Witness ==
    /\ pc = "exit"
    /\ result = Success
    /\ wait_cond = AnyDefaultRoute
    /\ packet.kind = "Route"
    /\ packet.operation = "Get"
    /\ packet.flags = RTF_UP + RTF_GATEWAY
    /\ packet.addrs.destination = V4(0, 0, 0, 0)
    /\ packet.addrs.gateway = V4(192, 168, 1, 1)

(***************************************************************************)
(* The vocabulary of the interface conditions, as the specification words  *)
(* it.                                                                     *)
(***************************************************************************)
\* 127.0.0.0/8, 169.254.0.0/16, ::1, fe80::/10 (fe80:: .. febf:ffff:...)
IsLocalAddress(a) ==
    \/ a.fam = "V4" /\ (a.ip[1] = 127 \/ (a.ip[1] = 169 /\ a.ip[2] = 254))
    \/ a.fam = "V6" /\ (a.ip = <<0, 0, 0, 0, 0, 0, 0, 1>> \/ a.ip[1] \in 65152..65215)

IsNonLocalIp(a) == a.fam \in {"V4", "V6"} /\ ~IsLocalAddress(a)

ShowsUp(e) ==
    CASE e.kind = "Link" -> HasBit(e.flags, IFF_UP) /\ HasBit(e.flags, IFF_RUNNING)
      [] e.kind = "Address" -> HasBit(e.flags, RTF_UP) /\ ~HasBit(e.flags, RTF_DEAD)
      [] e.kind = "Route" -> HasBit(e.flags, RTF_UP)

CarriesLinkNamed(e, n) ==
    e.addrs.interface_link.fam = "Link" /\ e.addrs.interface_link.interface_name = n

ForTarget(e, sp) ==
    IF sp.tag = "Index" THEN e.index = sp.idx ELSE CarriesLinkNamed(e, sp.name)

(***************************************************************************)
(* C4.  Under if-gets-address an event ends the wait only if it is for the *)
(* target interface, shows the interface up and carries an interface       *)
(* address outside the local ranges; an event without a non-local          *)
(* interface address never ends the wait.                                  *)
(***************************************************************************)
C4_AddressCondition ==
    (args.flag = "InterfaceHasAddress" /\ pc = "exit" /\ result = Success) =>
        /\ ForTarget(packet, wait_cond.spec)
        /\ ShowsUp(packet)
        /\ IsNonLocalIp(packet.addrs.interface_addr)

(***************************************************************************)
(* C5.  Under if-gets-route an event ends the wait iff it is for the       *)
(* target interface, shows the interface up and carries a non-local        *)
(* destination; an up route event for the interface with a non-local,      *)
(* non-zero destination and no interface address ends the wait.            *)
(***************************************************************************)
C5_RouteCondition ==
    (args.flag = "InterfaceHasRoute" /\ Evaluated /\ wait_cond.spec.tag = "Index") =>
        ((pc = "exit" /\ result = Success)
            <=> /\ packet.index = wait_cond.spec.idx
                /\ ShowsUp(packet)
                /\ IsNonLocalIp(packet.addrs.destination))

(***************************************************************************)
(* C6.  Name-to-index adoption.  A name-scoped evaluator keeps its name    *)
(* until an event carries a link record with the target name; on that      *)
(* event it exits or latches that record's index; an index never changes.  *)
(* With index 7 latched, an address event for index 7 with flag UP and     *)
(* interface address 192.0.2.10 ends the run with exit 0.                  *)
(***************************************************************************)
AdoptionStep ==
    (pc = "got" /\ wait_cond.kind = "Interface") =>
        LET sp == wait_cond.spec
            hit == sp.tag = "Name" /\ CarriesLinkNamed(packet, sp.name)
        IN  /\ (sp.tag = "Name" /\ ~hit) => (pc' = "waiting" /\ wait_cond' = wait_cond)
            /\ hit => \/ pc' = "exit" /\ result' = Success
                      \/ /\ pc' = "waiting"
                         /\ wait_cond' = Interface(IndexSpec(packet.addrs.interface_link.index))
            /\ sp.tag = "Index" =>
                  /\ wait_cond' = wait_cond
                  /\ (pc' = "exit" => packet.index = sp.idx)

\* any address event for index 7 with UP set and interface address 192.0.2.10
ScenarioAddressEvent(e) ==
    /\ e.kind = "Address"
    /\ e.index = 7
    /\ HasBit(e.flags, RTF_UP)
    /\ e.addrs.interface_addr = V4(192, 0, 2, 10)

C6_Original ==
    [][/\ AdoptionStep
       /\ (pc = "got" /\ wait_cond = Interface(IndexSpec(7)) /\ ScenarioAddressEvent(packet))
              => (pc' = "exit" /\ result' = Success)]_vars

\* the same with the scenario's event an address-add event with RTF_DEAD clear
C6_Adoption ==
    [][/\ AdoptionStep
       /\ (/\ pc = "got"
           /\ wait_cond = Interface(IndexSpec(7))
           /\ ScenarioAddressEvent(packet)
           /\ packet.operation = "Add"
           /\ ~HasBit(packet.flags, RTF_DEAD))
              => (pc' = "exit" /\ result' = Success)]_vars

\* en0 had no index at startup (nothing was sent), index 7 was latched, and
\* the address event of the scenario ended the run
C6_Witness ==
    /\ pc = "exit"
    /\ result = Success
    /\ args.flag = "InterfaceHasAddress"
    /\ sent = <<>>
    /\ wait_cond = Interface(IndexSpec(7))
    /\ packet.kind = "Address"
    /\ packet.operation = "Add"
    /\ packet.index = 7
    /\ packet.flags = RTF_UP
    /\ packet.addrs.interface_addr = V4(192, 0, 2, 10)

(***************************************************************************)
(* C7.  In index mode the target index is compared with the index of the   *)
(* message's top-level header, never with the index inside a link record:  *)
(* an event whose header index differs from the target index never ends    *)
(* the wait.                                                               *)
(***************************************************************************)
C7_HeaderIndex ==
    (pc = "exit" /\ result = Success /\ wait_cond.kind = "Interface") =>
        IF wait_cond.spec.tag = "Index"
        THEN packet.index = wait_cond.spec.idx
        ELSE packet.index = packet.addrs.interface_link.index

\* header index 8, link record index 7, target 7: evaluated, still waiting
C7_Witness ==
    /\ pc = "waiting"
    /\ wait_cond = Interface(IndexSpec(7))
    /\ packet.kind = "Address"
    /\ packet.operation = "Add"
    /\ packet.index = 8
    /\ packet.flags = RTF_UP
    /\ packet.addrs.interface_addr = V4(192, 0, 2, 10)
    /\ packet.addrs.interface_link = LinkAddr(TargetName, 7)

(***************************************************************************)
(* C8.  An address is local exactly when it is IPv4 in 127.0.0.0/8 or      *)
(* 169.254.0.0/16, the IPv6 address ::1, or IPv6 in fe80::/10 (a           *)
(* link-layer address is not usable either).  Hence an address event for   *)
(* the latched interface with interface address 169.254.10.11 leaves the   *)
(* program waiting.                                                        *)
(***************************************************************************)
C8_LocalAddresses ==
    /\ \A a \in (DestinationValues \cup InterfaceAddrValues \cup InterfaceLinkValues)
                    \ {NoAddr} :
           is_not_local_addr(a) <=> IsNonLocalIp(a)
    /\ (/\ Evaluated
        /\ wait_cond = Interface(IndexSpec(7))
        /\ packet.kind = "Address"
        /\ packet.index = 7
        /\ packet.addrs.interface_addr = V4(169, 254, 10, 11))
           => pc = "waiting"

(***************************************************************************)
(* C9.  The initial request of the chosen wait condition is sent before    *)
(* the first receive (default-IPv4 query for default-route, interface-info *)
(* query for an interface condition), Waiting is entered only after that   *)
(* send returned, and no request is sent while Waiting.                    *)
(***************************************************************************)
PastStartup == pc \in {"waiting", "blocked", "got"} \/ (pc = "exit" /\ result # Panicked)

DefaultQuerySent ==
    /\ wait_cond = AnyDefaultRoute
    /\ Len(sent) = 1
    /\ sent[1].req.query = "default_ipv4"
    /\ last_send.called /\ last_send.ret.ok

InterfaceQuerySent ==
    /\ wait_cond.kind = "Interface"
    /\ wait_cond.spec.tag = "Index"
    /\ Len(sent) = 1
    /\ sent[1].req.query = "interface_info"
    /\ sent[1].req.rtm_index = wait_cond.spec.idx
    /\ last_send.called /\ last_send.ret.ok

\* no step taken from Waiting sends a request or draws a sequence number
NothingSentWhileWaiting ==
    pc \in {"waiting", "blocked", "got"} => (sent' = sent /\ seq' = seq)

C9_Original ==
    /\ [](PastStartup => (DefaultQuerySent \/ InterfaceQuerySent))
    /\ [][NothingSentWhileWaiting]_vars

\* the same, with the third case: an interface whose name has no index at
\* startup sends nothing, neither before Waiting nor after it latches an index
C9_InitialRequest ==
    /\ [](PastStartup =>
            \/ DefaultQuerySent
            \/ InterfaceQuerySent
            \/ (wait_cond.kind = "Interface" /\ sent = <<>> /\ seq = 0
                    /\ ~last_send.called))
    /\ [][NothingSentWhileWaiting]_vars

\* a name-scoped evaluator has latched index 7 and is back in Waiting
C9_Witness ==
    /\ pc = "waiting"
    /\ wait_cond = Interface(IndexSpec(7))
    /\ packet # NoPacket
    /\ sent = <<>>

(***************************************************************************)
(* C10.  send returns success when the write fails with errno 3 ("no such  *)
(* process"), and the run proceeds to Waiting; a write failure with any    *)
(* other errno is returned unchanged.                                      *)
(***************************************************************************)
C10_SendMasksNoSuchProcess ==
    last_send.called =>
        /\ last_send.write = 3 =>
              /\ last_send.ret = OkResult
              /\ result # Panicked
              /\ pc \in {"waiting", "blocked", "got", "exit"}
        /\ last_send.write \notin {0, 3} => last_send.ret = ErrResult(last_send.write)
        /\ last_send.write = 0 => last_send.ret = OkResult

C10_Witness ==
    /\ last_send.called
    /\ last_send.write = 3
    /\ pc = "waiting"
    /\ wait_cond = AnyDefaultRoute

(***************************************************************************)
(* C11.  The k-th request sent on a socket carries sequence number k: the  *)
(* counter starts at 0 and is incremented before each send, so the first   *)
(* request carries 1 and the numbers strictly increase across requests of  *)
(* both kinds, whether or not a send succeeds.                             *)
(***************************************************************************)
C11_SequenceNumbers ==
    /\ seq = Len(sent)
    /\ \A k \in 1..Len(sent) : sent[k].req.rtm_seq = k
    /\ \A j, k \in 1..Len(sent) : j < k => sent[j].req.rtm_seq < sent[k].req.rtm_seq

\* three requests of both kinds, the first of which failed to send
C11_Witness ==
    /\ Len(sent) = 3
    /\ ~send(sent[1].write).ok
    /\ sent[1].req.query = "default_ipv4"
    /\ sent[2].req.query = "interface_info"
    /\ sent[3].req.rtm_seq = 3

(***************************************************************************)
(* C17.  The interface-info query for index i is a route-get message whose *)
(* header carries index i, flags IFSCOPE|HOST and address mask             *)
(* DESTINATION|IF_LINK|IF_ADDR, followed by one socket-address record      *)
(* whose family is the link family and whose index field is i.             *)
(***************************************************************************)
IsInterfaceInfoQuery(r, i) ==
    /\ r.rtm_type = "Get"
    /\ r.rtm_index = i
    /\ r.rtm_flags = RTF_IFSCOPE + RTF_HOST
    /\ r.rtm_addrs = RTA_DST + RTA_IFP + RTA_IFA
    /\ Len(r.records) = 1
    /\ r.records[1].sa_family = AF_LINK
    /\ r.records[1].sdl_index = i

C17_InterfaceInfoQuery ==
    \A k \in 1..Len(sent) :
        sent[k].req.query = "interface_info"
            => \E i \in Indexes : IsInterfaceInfoQuery(sent[k].req, i)

(***************************************************************************)
(* C18.  The default-IPv4 query is a route-get message with header index   *)
(* 0, flags UP|GATEWAY and address mask DESTINATION|NETMASK, followed by   *)
(* exactly two IPv4-family records (destination, then netmask) whose port  *)
(* and address are all zero; its header length field is the size of the    *)
(* header plus those two records.                                          *)
(***************************************************************************)
IsZeroIpv4Record(a) ==
    /\ a.sa_family = AF_INET
    /\ a.sa_len = SOCKADDR_IN_LEN
    /\ a.sin_port = 0
    /\ a.sin_addr = 0

C18_DefaultIpv4Query ==
    \A k \in 1..Len(sent) :
        sent[k].req.query = "default_ipv4"
            => /\ sent[k].req.rtm_type = "Get"
               /\ sent[k].req.rtm_index = 0
               /\ sent[k].req.rtm_flags = RTF_UP + RTF_GATEWAY
               /\ sent[k].req.rtm_addrs = RTA_DST + RTA_NETMASK
               /\ Len(sent[k].req.records) = 2
               /\ IsZeroIpv4Record(sent[k].req.records[1])
               /\ IsZeroIpv4Record(sent[k].req.records[2])
               /\ sent[k].req.rtm_msglen
                      = HDR_LEN + sent[k].req.records[1].sa_len
                                + sent[k].req.records[2].sa_len

\* a default-IPv4 query sent after an interface-info query
C18_Witness ==
    /\ Len(sent) = 2
    /\ sent[1].req.query = "interface_info"
    /\ sent[2].req.query = "default_ipv4"
    /\ sent[2].req.rtm_msglen = 124

(***************************************************************************)
(* Address-set claims: the slots of a mask in the canonical order, and     *)
(* where each record of a packed stream starts.                            *)
(***************************************************************************)
CanonicalSlots ==
    <<[slot |-> "destination", bit |-> RTA_DST],
      [slot |-> "gateway", bit |-> RTA_GATEWAY],
      [slot |-> "netmask", bit |-> RTA_NETMASK],
      [slot |-> "genmask", bit |-> RTA_GENMASK],
      [slot |-> "interface_link", bit |-> RTA_IFP],
      [slot |-> "interface_addr", bit |-> RTA_IFA],
      [slot |-> "author", bit |-> RTA_AUTHOR],
      [slot |-> "broadcast", bit |-> RTA_BRD]>>

HasCanonicalBit(c) == HasBit(input.flags, c.bit)

\* the slots whose bit is set in the mask of the input, in canonical order
MaskSlots == SelectSeq(CanonicalSlots, HasCanonicalBit)

RECURSIVE RecordStart(_, _)
RecordStart(stream, k) ==
    IF k = 1 THEN 0 ELSE RecordStart(stream, k - 1) + Len(Wire(stream[k - 1]))

\* family-less address bytes stand only in the netmask slot, behind a first
\* record of the IP family they are as long as
PackedStream ==
    \A k \in 1..Len(input.stream) :
        input.stream[k].kind = "Raw"
            => /\ k > 1
               /\ MaskSlots[k].slot = "netmask"
               /\ input.stream[1].kind
                      = (IF Len(input.stream[k].bytes) = 4 THEN "V4" ELSE "V6")

AddressSetParsed == input.fn = "AddressSet::from_raw" /\ output # NoOutput

(***************************************************************************)
(* C13.  For every address mask and byte stream on which address-set       *)
(* parsing succeeds, each populated field (destination, gateway, netmask,  *)
(* genmask, interface_link, interface_addr, broadcast) has its bit set in  *)
(* the mask, and the k-th record of the stream is assigned to the k-th set *)
(* bit of the mask in the canonical order.                                 *)
(***************************************************************************)
C13_MaskGoverns ==
    (AddressSetParsed /\ output.status = "ok" /\ PackedStream)
        => /\ \A i \in 1..Len(CanonicalSlots) :
                 LET c == CanonicalSlots[i]
                 IN  (c.slot # "author" /\ output.info[c.slot] # NoAddr)
                         => HasBit(input.flags, c.bit)
           /\ \A k \in 1..Len(input.stream) :
                 /\ k <= Len(output.steps)
                 /\ output.steps[k].slot = MaskSlots[k].slot
                 /\ output.steps[k].offset = RecordStart(input.stream, k)

(***************************************************************************)
(* C14.  At every slot of the address set, a record whose address family   *)
(* the decoder does not model is skipped without error: the slot's field   *)
(* stays unpopulated, the offset advances by exactly the record's declared *)
(* length, and every later slot is decoded from the correct position.      *)
(***************************************************************************)
C14_UnknownFamilySkipped ==
    (AddressSetParsed /\ PackedStream)
        => \A k \in 1..Len(input.stream) :
              (/\ input.stream[k].kind = "Other"
               /\ k <= Len(output.steps)
               /\ output.steps[k].offset = RecordStart(input.stream, k))
                  => /\ output.steps[k].tag = "Ok"
                     /\ output.steps[k].len = input.stream[k].len
                     /\ output.steps[k].slot # "author"
                            => output.info[output.steps[k].slot] = NoAddr
                     /\ k < Len(input.stream)
                            => /\ k < Len(output.steps)
                               /\ output.steps[k + 1].offset
                                      = RecordStart(input.stream, k + 1)

(***************************************************************************)
(* C15.  The netmask fallback runs iff family-tagged decoding of the       *)
(* netmask slot fails and a previously parsed destination or gateway is    *)
(* IPv4 or IPv6: it then takes the next 4 bytes (IPv4) or 16 bytes (IPv6)  *)
(* as the raw mask, advances by that many bytes and returns no error       *)
(* (destination 10.0.0.0 with a family-less 4-byte netmask gives netmask   *)
(* 255.255.0.0); when neither a destination nor a gateway of an IP family  *)
(* precedes, the original decoding error is returned.                      *)
(***************************************************************************)
IpBefore(fam) ==
    output.info.destination.fam = fam \/ output.info.gateway.fam = fam

\* what the claim gives the netmask slot parsed at step k
NetmaskAsClaimed(k) ==
    LET off == output.steps[k].offset
        n == Len(input.data)
        tagged == parse_ip(input, off, n)
        step == output.steps[k]
    IN  CASE tagged.tag = "Ok" ->
               /\ step.tag = "Ok"
               /\ step.len = tagged.len
               /\ output.info.netmask = IpAddr(tagged.val)
          [] tagged.tag # "Ok" /\ (IpBefore("V4") \/ IpBefore("V6")) ->
               /\ step.tag = "Ok"
               /\ \/ /\ IpBefore("V4")
                     /\ step.len = 4
                     /\ output.info.netmask
                            = [fam |-> "V4", ip |-> SubSeq(input.data, off + 1, off + 4)]
                  \/ /\ IpBefore("V6")
                     /\ step.len = 16
                     /\ output.info.netmask
                            = [fam |-> "V6", ip |-> Ipv6Segments(input, off)]
          [] OTHER ->
               /\ step.tag = "Err"
               /\ output.status = "err"
               /\ output.err = tagged.err

C15_NetmaskFallback ==
    AddressSetParsed
        => \A k \in 1..Len(output.steps) :
              (/\ output.steps[k].slot = "netmask"
               /\ output.steps[k].offset + 16 <= Len(input.data))
                  => NetmaskAsClaimed(k)

(***************************************************************************)
(* C20.  For every four octets and every 16-bit port, an IPv4 socket-      *)
(* address record that encodes the port and the address in network byte    *)
(* order decodes to an Inet4 value with the same four octets in the same   *)
(* order and the same port.                                                *)
(***************************************************************************)
C20_Ipv4RoundTrip ==
    (input.fn = "SockAddr::from_raw" /\ output # NoOutput
     /\ input.stream[1].kind = "V4")
        => /\ output.tag = "Ok"
           /\ output.val = [fam |-> "V4", ip |-> input.stream[1].ip,
                            port |-> input.stream[1].port]

\* 10.0.1.255 port 443 decoded: octets and port bytes that differ
C20_Witness ==
    /\ input.fn = "SockAddr::from_raw"
    /\ input.stream[1] = V4Record(<<10, 0, 1, 255>>, 443)
    /\ output # NoOutput
    /\ output.val.port = 443
    /\ output.val.ip = <<10, 0, 1, 255>>

ClaimedKind(type) ==
    CASE type \in {RTM_ADD, RTM_DELETE, RTM_CHANGE, RTM_GET, RTM_GET2,
                    RTM_OLDADD, RTM_OLDDEL} -> "Route"
      [] type \in {RTM_IFINFO, RTM_IFINFO2} -> "Link"
      [] type \in {RTM_NEWADDR, RTM_DELADDR} -> "Address"
      [] OTHER -> "None"

C16_TypeByteClassifies ==
    (/\ input.fn = "Header::from_raw"
     /\ input.rtm_msglen = input.n
     /\ input.n >= header_len(input.rtm_type)) =>
        IF ClaimedKind(input.rtm_type) = "None"
        THEN output.status = "none"
        ELSE \/ output.status \in {"err", "panic"}
             \/ output.status = "some" /\ output.kind = ClaimedKind(input.rtm_type)

(***************************************************************************)
(* C19.  Wait-condition parsing splits the spec string at '=', ' ' or ':': *)
(* the key default-route yields the default-route condition; the keys      *)
(* if-gets-address and if-gets-route followed by a separator and a name     *)
(* yield the corresponding interface condition carrying that name; an      *)
(* empty spec, any other key, or an interface key with no name after it is *)
(* rejected with an error.  The key is the string up to its first          *)
(* separator, the name the characters behind that separator up to the      *)
(* next one; there is no name after the key when nothing but separators    *)
(* follows it.  Nothing is said of a key followed by several separators    *)
(* and then a name.                                                        *)
(***************************************************************************)
FirstSeparator(s) ==
    IF \E i \in 1..Len(s) : s[i] \in Separators
    THEN CHOOSE i \in 1..Len(s) :
             s[i] \in Separators /\ \A j \in 1..(i - 1) : s[j] \notin Separators
    ELSE Len(s) + 1

SpecKey(s) == SubSeq(s, 1, FirstSeparator(s) - 1)
SpecRest(s) == SubSeq(s, FirstSeparator(s) + 1, Len(s))
InterfaceKeys ==
    [x \in {"InterfaceHasAddress", "InterfaceHasRoute"} |->
        IF x = "InterfaceHasAddress"
        THEN <<"i", "f", "-", "g", "e", "t", "s", "-", "a", "d", "d", "r", "e", "s", "s">>
        ELSE <<"i", "f", "-", "g", "e", "t", "s", "-", "r", "o", "u", "t", "e">>]

C19_WaitConditionParsing ==
    (input.fn = "WaitConditionFlag::from_str" /\ output # NoOutput) =>
        LET key == SpecKey(input.str)
            rest == SpecRest(input.str)
            name == SpecKey(rest)
        IN  /\ key = <<"d", "e", "f", "a", "u", "l", "t", "-", "r", "o", "u", "t", "e">> =>
                  output.ok /\ output.flag = "DefaultRouteExists"
            /\ \A x \in DOMAIN InterfaceKeys :
                  key = InterfaceKeys[x] =>
                     /\ name # <<>> =>
                           output.ok /\ output.flag = x /\ output.name = name
                     /\ (\A i \in 1..Len(rest) : rest[i] \in Separators) =>
                           ~output.ok
            /\ input.str = <<>> => ~output.ok
            /\ (key # <<"d", "e", "f", "a", "u", "l", "t", "-", "r", "o", "u", "t", "e">>
                 /\ \A x \in DOMAIN InterfaceKeys : key # InterfaceKeys[x]) =>
                  ~output.ok

SockAddrDecoded == input.fn = "SockAddr::from_raw" /\ output # NoOutput

(***************************************************************************)
(* C21.  Given a non-empty slice whose declared record length L exceeds    *)
(* the slice length, the socket-address decoder fails with PartialData for *)
(* every family byte; it never decodes fields from bytes beyond the slice. *)
(***************************************************************************)
C21_PartialData ==
    (SockAddrDecoded /\ input.data # <<>> /\ input.data[1] > Len(input.data))
        => output = ErrAddr("PartialData")

(***************************************************************************)
(* C22.  Given a non-empty slice whose first byte (the record length L) is *)
(* 0, the socket-address decoder returns (skip, 0) without failing, for    *)
(* every value of the family byte.                                         *)
(***************************************************************************)
C22_ZeroLengthSkipped ==
    (SockAddrDecoded /\ input.data # <<>> /\ input.data[1] = 0)
        => output = OkAddr(NoAddr, 0)

(***************************************************************************)
(* C24.  For a link-family record with name length nlen and link-layer     *)
(* address length alen that fit within the record's declared length,       *)
(* decoding never fails and yields interface_name equal to the nlen bytes  *)
(* at the start of the packed data region (UTF-8, lossy), link_layer_addr  *)
(* equal to the following alen bytes, and index equal to the record's      *)
(* index field.  The data region starts behind the eight bytes of length,  *)
(* family, index, type and the three lengths.                              *)
(***************************************************************************)
C24_LinkRecordDecoded ==
    LET d == input.data
    IN  (/\ SockAddrDecoded
         /\ Len(d) >= 8
         /\ d[1] <= Len(d)
         /\ d[2] = AF_LINK
         /\ 8 + d[6] + d[7] <= d[1]) =>
            /\ output.tag = "Ok"
            /\ output.val.fam = "Link"
            /\ output.val.interface_name = from_utf8_lossy(SubSeq(d, 9, 8 + d[6]))
            /\ output.val.link_layer_addr = SubSeq(d, 9 + d[6], 8 + d[6] + d[7])
            /\ output.val.index = d[3] + 256 * d[4]

(***************************************************************************)
(* C23.  For every slot position, if the offset has reached or passed the  *)
(* end of the slice when a slot whose mask bit is set is about to be       *)
(* parsed, address-set parsing returns success with exactly the fields     *)
(* parsed so far and all remaining fields unpopulated; a truncated address *)
(* stream never produces an error and never reads past the slice.          *)
(* output.early says that a slot with its bit set was reached at or behind *)
(* the end; StructEnd is where the struct read at a step ends.             *)
(***************************************************************************)
StructEnd(step) ==
    LET family == Byte(input, step.offset + 1)
    IN  step.offset +
          (CASE step.slot = "interface_link" -> ADDR_LEN
             [] family = AF_INET -> SOCKADDR_IN_LEN
             [] family = AF_INET6 -> 28
             [] family = AF_LINK /\ step.slot \notin {"netmask", "genmask", "broadcast"}
                  -> ADDR_LEN
             [] OTHER -> 2)

C23_EarlyExit ==
    (AddressSetParsed /\ output.early) =>
        /\ output.status = "ok"
        /\ \A k \in 1..Len(SlotOrder) :
              LET slot == SlotOrder[k]
              IN  (slot # "author" /\ output.info[slot] # NoAddr) =>
                     \E j \in 1..Len(output.steps) :
                        /\ output.steps[j].slot = slot
                        /\ output.steps[j].tag = "Ok"
        /\ \A j \in 1..Len(output.steps) :
              /\ output.steps[j].offset < Len(input.data)
              /\ StructEnd(output.steps[j]) <= Len(input.data)

(***************************************************************************)
(* C25.  When the decoder returns None for a received message              *)
(* (unrecognized or uninteresting type), receive does not return to the    *)
(* evaluator and blocks for the next message; the wait condition, any      *)
(* latched index and the sequence counter are unchanged by such a message, *)
(* and it never ends the run.                                              *)
(***************************************************************************)
C25_NoneIsSkipped ==
    [][DecodeNone =>
          /\ pc' = "blocked"
          /\ result' = Running
          /\ UNCHANGED <<wait_cond, seq, sent, packet>>]_vars

\* a message skipped by a run that had latched an index from a name
C25_Witness ==
    /\ pc = "blocked"
    /\ skipped >= 1
    /\ result = Running
    /\ wait_cond.kind = "Interface"
    /\ wait_cond.spec.tag = "Index"
    /\ Len(sent) = 0

(***************************************************************************)
(* C26.  The wait condition changes only through the name-to-index latch:  *)
(* the default-route condition never changes, and once the condition is an *)
(* interface index i it remains index i for the rest of the run, for every *)
(* sequence of received events (it never reverts to a name and is never    *)
(* replaced by another index).  The condition is first set, from Unset,    *)
(* before the loop.                                                        *)
(***************************************************************************)
C26_ConditionOnlyLatches ==
    [][/\ wait_cond.kind = "AnyDefaultRoute" => wait_cond' = wait_cond
       /\ (wait_cond.kind = "Interface" /\ wait_cond.spec.tag = "Index")
              => wait_cond' = wait_cond
       /\ (wait_cond # Unset /\ wait_cond' # wait_cond) =>
              /\ wait_cond.kind = "Interface"
              /\ wait_cond.spec.tag = "Name"
              /\ packet.addrs.interface_link.fam = "Link"
              /\ packet.addrs.interface_link.interface_name = wait_cond.spec.name
              /\ wait_cond' = Interface(IndexSpec(packet.addrs.interface_link.index))]_vars

\* index 7 kept after an event of the same interface name with index 8
C26_Witness ==
    /\ Evaluated
    /\ pc = "waiting"
    /\ wait_cond = Interface(IndexSpec(7))
    /\ packet.addrs.interface_link = LinkAddr(TargetName, 8)

(***************************************************************************)
(* C27.  While the evaluator is name-scoped, an event that carries no      *)
(* interface-link record named as the target neither ends the wait nor     *)
(* changes the wait condition, whatever its kind, header index, flags and  *)
(* addresses.                                                              *)
(***************************************************************************)
NameScoped == wait_cond.kind = "Interface" /\ wait_cond.spec.tag = "Name"

C27_NameScopedIgnores ==
    [][(pc = "got" /\ NameScoped /\ ~CarriesLinkNamed(packet, wait_cond.spec.name))
          => /\ pc' = "waiting"
             /\ result' = Running
             /\ wait_cond' = wait_cond]_vars

\* an up address-add event for index 7 with a usable address and a link
\* record of another interface has been evaluated; the name is kept
C27_Witness ==
    /\ Evaluated
    /\ pc = "waiting"
    /\ NameScoped
    /\ packet.kind = "Address"
    /\ packet.operation = "Add"
    /\ HasBit(packet.flags, RTF_UP)
    /\ IsNonLocalIp(packet.addrs.interface_addr)
    /\ packet.addrs.interface_link.fam = "Link"
    /\ packet.addrs.interface_link.interface_name # wait_cond.spec.name

(***************************************************************************)
(* C28.  Under every wait condition, no removal event (route Delete,       *)
(* address Delete) and no link event other than interface-info ends the    *)
(* wait with exit 0, whatever flags and addresses it carries.              *)
(***************************************************************************)
IsRemoval(e) == e.kind \in {"Route", "Address"} /\ e.operation = "Delete"

IsOtherLinkEvent(e) == e.kind = "Link" /\ e.operation # "Info"

C28_RemovalsNeverEnd ==
    [][(pc = "got" /\ (IsRemoval(packet) \/ IsOtherLinkEvent(packet)))
          => (pc' = "waiting" /\ result' = Running)]_vars

\* with index 7 latched, an up address Delete for index 7 that carries a
\* usable interface address has been evaluated and the program waits on
C28_Witness ==
    /\ Evaluated
    /\ pc = "waiting"
    /\ wait_cond = Interface(IndexSpec(7))
    /\ packet.kind = "Address"
    /\ packet.operation = "Delete"
    /\ packet.index = 7
    /\ HasBit(packet.flags, RTF_UP)
    /\ ~HasBit(packet.flags, RTF_DEAD)
    /\ IsNonLocalIp(packet.addrs.interface_addr)

(***************************************************************************)
(* C30.  A socket read that fails with errno 11 or 35 is reported as       *)
(* Timeout and ends the run with exit 2, with or without a configured      *)
(* timeout; a read failure with any other errno, and every failure of the  *)
(* kevent wait itself (errno 11 and 35 included), is reported as an I/O    *)
(* error and ends the run with exit 1.                                     *)
(***************************************************************************)
WouldBlock == {11, 35}

C30_ReadAndWaitFailures ==
    [][/\ ReadFails =>
            /\ pc' = "exit"
            /\ \E e \in ReadErrnos :
                  IF e \in WouldBlock
                  THEN result' = ErrTimeout /\ exit_code(result') = 2
                  ELSE result' = ErrIO(e) /\ exit_code(result') = 1
       /\ KeventFails =>
            /\ pc' = "exit"
            /\ \E e \in KeventErrnos : result' = ErrIO(e)
            /\ exit_code(result') = 1]_vars

\* a run without --timeout has ended with Timeout: the read would block
C30_Witness ==
    /\ pc = "exit"
    /\ ~args.timeout.some
    /\ result = ErrTimeout
    /\ exit_code(result) = 2

(***************************************************************************)
(* C29.  When recv returns an event that satisfies the chosen wait         *)
(* condition, the run ends with exit 0 on that event.  Each received event *)
(* is evaluated exactly once, in arrival order: nothing is received while  *)
(* an event awaits evaluation, an event is held only from a receive, and   *)
(* an evaluated event is not evaluated again.  Evaluation stops at the     *)
(* first satisfying event and nothing is received after it.                *)
(***************************************************************************)
Satisfies(e, wc) ==
    IF wc.kind = "AnyDefaultRoute"
    THEN is_ready_default_route(e)
    ELSE is_given_interface_running(e, wc.spec).ready

====
